---- MODULE Spec2Model ----
(***************************************************************************)
(* A model of py-mpq: the MPQ stream cipher (mpqcrypt.py), the sector      *)
(* codec (mpqcompress.py) and the archive extractor / assembler (mpq.py).  *)
(*                                                                         *)
(* Conventions                                                             *)
(*   - a byte is a number in 0..255, a file or a stream a sequence of      *)
(*     bytes, a file name a sequence of one-character strings;             *)
(*   - a 32-bit word is a pair <<hi, lo>> of 16-bit halves (TLC's own      *)
(*     integers are signed 32-bit, so 0xFFFFFFFF does not fit in one);     *)
(*     a Python int that the code has not masked yet keeps a hi half       *)
(*     wider than 16 bits until Mask32 cuts it.                            *)
(***************************************************************************)
EXTENDS Integers, Sequences, FiniteSets, TLC

\* ------------------------------------------------------------------------
\* Bounds of the model (not program constants)
\* ------------------------------------------------------------------------
\* longest word buffer handed to the block cipher
MaxBufLen == 3

\* ------------------------------------------------------------------------
\* Bit and word arithmetic
\* ------------------------------------------------------------------------
M16 == 65536

Min(a, b) == IF a < b THEN a ELSE b
Max(a, b) == IF a > b THEN a ELSE b

RECURSIVE Pow2(_)
Pow2(n) == IF n = 0 THEN 1 ELSE 2 * Pow2(n - 1)

\* a ^ b, a | b, a & b on four bits, tabulated once
XorBit(a, b) == ((a % 2) + (b % 2)) % 2
Xor4 ==
    [a \in 0..15 |-> [b \in 0..15 |->
        XorBit(a, b) + (2 * XorBit(a \div 2, b \div 2))
        + (4 * XorBit(a \div 4, b \div 4)) + (8 * XorBit(a \div 8, b \div 8))]]
Or4 ==
    [a \in 0..15 |-> [b \in 0..15 |->
        Max(a % 2, b % 2) + (2 * Max((a \div 2) % 2, (b \div 2) % 2))
        + (4 * Max((a \div 4) % 2, (b \div 4) % 2)) + (8 * Max(a \div 8, b \div 8))]]
And4 ==
    [a \in 0..15 |-> [b \in 0..15 |->
        Min(a % 2, b % 2) + (2 * Min((a \div 2) % 2, (b \div 2) % 2))
        + (4 * Min((a \div 4) % 2, (b \div 4) % 2)) + (8 * Min(a \div 8, b \div 8))]]

\* a ^ b, a | b, a & b on the low n bits, n a multiple of four
RECURSIVE BitXor(_, _, _)
BitXor(a, b, n) ==
    IF n = 0 THEN 0
    ELSE Xor4[a % 16][b % 16] + (16 * BitXor(a \div 16, b \div 16, n - 4))

RECURSIVE BitOr(_, _, _)
BitOr(a, b, n) ==
    IF n = 0 THEN 0
    ELSE Or4[a % 16][b % 16] + (16 * BitOr(a \div 16, b \div 16, n - 4))

RECURSIVE BitAnd(_, _, _)
BitAnd(a, b, n) ==
    IF n = 0 THEN 0
    ELSE And4[a % 16][b % 16] + (16 * BitAnd(a \div 16, b \div 16, n - 4))

W(hi, lo) == <<hi, lo>>
Hi(w) == w[1]
Lo(w) == w[2]

\* x & 0xFFFFFFFF
Mask32(w) == W(Hi(w) % M16, Lo(w))
\* a + b on Python ints (no reduction of the high half)
Add(a, b) == W(Hi(a) + Hi(b) + ((Lo(a) + Lo(b)) \div M16), (Lo(a) + Lo(b)) % M16)
\* a << 5 on Python ints
Shl5(a) == W((Hi(a) * 32) + ((Lo(a) * 32) \div M16), (Lo(a) * 32) % M16)
\* (~a << 0x15) modulo 2^32, for a 32-bit a: the low 11 bits of ~a, moved up
NotShl21(a) == W(((M16 - 1 - Lo(a)) % 2048) * 32, 0)
\* a >> 0x0B for a 32-bit a
Shr11(a) == W(Hi(a) \div 2048, ((Hi(a) % 2048) * 32) + (Lo(a) \div 2048))
Xor32(a, b) == W(BitXor(Hi(a), Hi(b), 16), BitXor(Lo(a), Lo(b), 16))
Or32(a, b) == W(BitOr(Hi(a), Hi(b), 16), BitOr(Lo(a), Lo(b), 16))

\* the value of a 32-bit word below 2^31 as a number
ToNat(w) == (Hi(w) * M16) + Lo(w)
FromNat(n) == W(n \div M16, n % M16)
\* w >= n for a small number n, also when w is 2^31 or more
WordGe(w, n) == IF Hi(w) >= 32768 THEN TRUE ELSE ToNat(w) >= n

\* ------------------------------------------------------------------------
\* mpqcrypt.py: the key table and the block cipher
\* ------------------------------------------------------------------------
LCG_SEED == 1048577
LCG_MODULUS == 2796203
MPQ_HASH_KEY2_MIX == 1024
STORM_BUFFER_SIZE == 1280

LcgNext(dwSeed) == ((dwSeed * 125) + 3) % LCG_MODULUS

\* the n seeds drawn after dwSeed, in order
RECURSIVE LcgRun(_, _)
LcgRun(dwSeed, n) ==
    IF n = 0 THEN <<>>
    ELSE IF n = 1 THEN <<LcgNext(dwSeed)>>
    ELSE LET left == LcgRun(dwSeed, n \div 2)
             right == LcgRun(left[Len(left)], n - (n \div 2))
         IN  left \o right

\* __init__ draws two seeds per slot, five slots per column index1
LcgDraws == LcgRun(LCG_SEED, 2 * STORM_BUFFER_SIZE)

\* StormBuffer[index2], index2 = index1 + k * 0x100 filled k-th in column index1
StormBuffer(index2) ==
    LET index1 == index2 % 256
        k == index2 \div 256
        p == (index1 * 5) + k
    IN  W(LcgDraws[(2 * p) + 1] % M16, LcgDraws[(2 * p) + 2] % M16)

KEY2_INIT == W(61166, 61166)
KEY1_ADD == W(4369, 4369)
THREE == W(0, 3)

\* dwKey1 = (((~dwKey1 << 0x15) + 0x11111111) & 0xFFFFFFFF) | (dwKey1 >> 0x0B)
NextKey1(dwKey1) == Or32(Mask32(Add(NotShl21(dwKey1), KEY1_ADD)), Shr11(dwKey1))
\* dwKey2 = (dwValue32 + dwKey2 + (dwKey2 << 5) + 3) & 0xFFFFFFFF
NextKey2(dwValue32, dwKey2) ==
    Mask32(Add(Add(Add(dwValue32, dwKey2), Shl5(dwKey2)), THREE))

\* DecryptFrom with the key state advanced by the word as read (the ciphertext)
\* instead of the word just decrypted: the variant CipherInvolution is told from
RECURSIVE DecryptFromCiphertextFeedback(_, _, _, _)
DecryptFromCiphertextFeedback(ui32_arr, i, dwKey1, dwKey2in) ==
    IF i > Len(ui32_arr) THEN ui32_arr
    ELSE LET dwKey2 == Mask32(Add(dwKey2in, StormBuffer(MPQ_HASH_KEY2_MIX + (Lo(dwKey1) % 256))))
             dwValue32 == Xor32(ui32_arr[i], Mask32(Add(dwKey1, dwKey2)))
         IN  DecryptFromCiphertextFeedback([ui32_arr EXCEPT ![i] = dwValue32], i + 1,
                                           NextKey1(dwKey1), NextKey2(ui32_arr[i], dwKey2))

RECURSIVE DecryptFrom(_, _, _, _)
DecryptFrom(ui32_arr, i, dwKey1, dwKey2in) ==
    IF i > Len(ui32_arr) THEN ui32_arr
    ELSE LET dwKey2 == Mask32(Add(dwKey2in, StormBuffer(MPQ_HASH_KEY2_MIX + (Lo(dwKey1) % 256))))
             dwValue32 == Xor32(ui32_arr[i], Mask32(Add(dwKey1, dwKey2)))
         IN  DecryptFrom([ui32_arr EXCEPT ![i] = dwValue32], i + 1,
                         NextKey1(dwKey1), NextKey2(dwValue32, dwKey2))

DecryptMpqBlock(ui32_arr, dwKey1) == DecryptFrom(ui32_arr, 1, dwKey1, KEY2_INIT)

RECURSIVE EncryptFrom(_, _, _, _)
EncryptFrom(ui32_arr, i, dwKey1, dwKey2in) ==
    IF i > Len(ui32_arr) THEN ui32_arr
    ELSE LET dwKey2 == Add(dwKey2in, StormBuffer(MPQ_HASH_KEY2_MIX + (Lo(dwKey1) % 256)))
             dwValue32 == ui32_arr[i]
         IN  EncryptFrom([ui32_arr EXCEPT ![i] = Xor32(dwValue32, Mask32(Add(dwKey1, dwKey2)))],
                         i + 1, NextKey1(dwKey1), NextKey2(dwValue32, dwKey2))

EncryptMpqBlock(ui32_arr, dwKey1) == EncryptFrom(ui32_arr, 1, dwKey1, KEY2_INIT)

MPQ_KEY_HASH_TABLE == W(50095, 14192)
MPQ_KEY_BLOCK_TABLE == W(60547, 45987)

\* ------------------------------------------------------------------------
\* Bytes, and the little-endian layout of the ctypes structures
\* ------------------------------------------------------------------------
Zeros(n) == [k \in 1..n |-> 0]
Rep(b, n) == [k \in 1..n |-> b]

\* fin.seek(pos); fin.read(n): at most n bytes, fewer at the end of the file
ReadAt(f, pos, n) ==
    IF pos >= Len(f) THEN <<>> ELSE SubSeq(f, pos + 1, Min(pos + n, Len(f)))
\* fin.seek(pos); fin.readinto(<n zeroed bytes>): a short read leaves zeros
ReadInto(f, pos, n) ==
    LET got == ReadAt(f, pos, n) IN got \o Zeros(n - Len(got))
\* fout.seek(pos); fout.write(data), pos <= Len(f)
WriteAt(f, pos, data) ==
    SubSeq(f, 1, pos) \o data \o SubSeq(f, pos + Len(data) + 1, Len(f))

U16Bytes(n) == <<n % 256, n \div 256>>
WordBytes(w) == U16Bytes(Lo(w)) \o U16Bytes(Hi(w))
U16At(b, off) == b[off + 1] + (256 * b[off + 2])
WordAt(b, off) == W(U16At(b, off + 2), U16At(b, off))

\* c_int32 read from four bytes: two's complement
I32At(b, off) ==
    IF b[off + 4] < 128 THEN ToNat(WordAt(b, off))
    ELSE 0 - (((255 - b[off + 4]) * 16777216) + ((255 - b[off + 3]) * 65536)
              + ((255 - b[off + 2]) * 256) + (255 - b[off + 1]) + 1)
\* bytes(c_int32 array) for the non-negative offsets the assembler stores
RECURSIVE I32ArrayBytes(_)
I32ArrayBytes(a) ==
    IF a = <<>> THEN <<>> ELSE WordBytes(FromNat(a[1])) \o I32ArrayBytes(Tail(a))

\* a buffer of n 32-bit words taken from 4 * n bytes, and back
BytesToWords(b) == [k \in 1..(Len(b) \div 4) |-> WordAt(b, 4 * (k - 1))]
RECURSIVE WordsToBytes(_)
WordsToBytes(ws) ==
    IF ws = <<>> THEN <<>> ELSE WordBytes(ws[1]) \o WordsToBytes(Tail(ws))

SIZEOF_HEADER == 32
SIZEOF_ENTRY == 16

\* class HeaderV1
HeaderBytes(h) ==
    WordBytes(h.dwID) \o WordBytes(h.dwHeaderSize) \o WordBytes(h.dwArchiveSize)
    \o U16Bytes(h.wFormatVersion) \o U16Bytes(h.wBlockSize)
    \o WordBytes(h.dwHashTablePos) \o WordBytes(h.dwBlockTablePos)
    \o WordBytes(h.dwHashTableSize) \o WordBytes(h.dwBlockTableSize)
ParseHeader(b) ==
    [dwID |-> WordAt(b, 0), dwHeaderSize |-> WordAt(b, 4), dwArchiveSize |-> WordAt(b, 8),
     wFormatVersion |-> U16At(b, 12), wBlockSize |-> U16At(b, 14),
     dwHashTablePos |-> WordAt(b, 16), dwBlockTablePos |-> WordAt(b, 20),
     dwHashTableSize |-> WordAt(b, 24), dwBlockTableSize |-> WordAt(b, 28)]
\* HeaderV1(): every field zero
ZeroHeader == ParseHeader(Zeros(SIZEOF_HEADER))

\* class MpqHash as four words, and back
HashWords(e) == <<e.dwName1, e.dwName2, W(e.wPlatform, e.lcLocale), e.dwBlockIndex>>
WordsHash(ws, k) ==
    [dwName1 |-> ws[(4 * k) + 1], dwName2 |-> ws[(4 * k) + 2],
     lcLocale |-> Lo(ws[(4 * k) + 3]), wPlatform |-> Hi(ws[(4 * k) + 3]),
     dwBlockIndex |-> ws[(4 * k) + 4]]
\* class MpqBlock as four words, and back
BlockWords(e) == <<e.dwFilePos, e.dwCSize, e.dwFSize, e.dwFlags>>
WordsBlock(ws, k) ==
    [dwFilePos |-> ws[(4 * k) + 1], dwCSize |-> ws[(4 * k) + 2],
     dwFSize |-> ws[(4 * k) + 3], dwFlags |-> ws[(4 * k) + 4]]

RECURSIVE HashTableWords(_)
HashTableWords(t) == IF t = <<>> THEN <<>> ELSE HashWords(t[1]) \o HashTableWords(Tail(t))
RECURSIVE BlockTableWords(_)
BlockTableWords(t) == IF t = <<>> THEN <<>> ELSE BlockWords(t[1]) \o BlockTableWords(Tail(t))

\* ------------------------------------------------------------------------
\* mpqcompress.py: the sector codec
\* ------------------------------------------------------------------------
CMPR_METHOD_ZLIB == 2

(* zlib itself is a library outside the repository.  Its stream is modelled *)
(* as the two header bytes of a level-9 stream, the payload as runs         *)
(* <<count, byte>> with count in 1..255, an end marker 0 and a one-byte     *)
(* check value.  What the code relies on is kept: the output differs from   *)
(* the input, repetitive data shrinks and short data grows, inflating a     *)
(* deflated buffer gives the buffer back, a wrong header or check value     *)
(* raises zlib.error, and a decompressobj that is given a truncated stream  *)
(* returns what it could decode without raising.                            *)
ZLIB_HEADER == <<120, 218>>
ZLIB_CHECK_MODULUS == 251
ZLIB_MAX_RUN == 255

RECURSIVE ByteSum(_, _, _)
ByteSum(b, lo, hi) ==
    IF lo > hi THEN 0
    ELSE IF lo = hi THEN b[lo]
    ELSE LET mid == (lo + hi) \div 2 IN ByteSum(b, lo, mid) + ByteSum(b, mid + 1, hi)
ZlibCheck(buf) == (1 + ByteSum(buf, 1, Len(buf))) % ZLIB_CHECK_MODULUS

\* the length of the run of buf[p] that starts at p, at most ZLIB_MAX_RUN
RunLength(buf, p) ==
    LET limit == Min(ZLIB_MAX_RUN, (Len(buf) - p) + 1)
        breaks == {n \in 1..(limit - 1) : buf[p + n] # buf[p]}
    IN  IF breaks = {} THEN limit ELSE CHOOSE n \in breaks : \A m \in breaks : n <= m
RECURSIVE DeflateRuns(_, _)
DeflateRuns(buf, p) ==
    IF p > Len(buf) THEN <<>>
    ELSE LET n == RunLength(buf, p) IN <<n, buf[p]>> \o DeflateRuns(buf, p + n)

compress_zlib(buf) == ZLIB_HEADER \o DeflateRuns(buf, 1) \o <<0, ZlibCheck(buf)>>

\* [raised, buf]: raised is "" or the name of the exception
Ok(buf) == [raised |-> "", buf |-> buf]
Raise(exc) == [raised |-> exc, buf |-> <<>>]

\* the runs of a stream from position p on, out being what is decoded so far
RECURSIVE InflateRuns(_, _, _)
InflateRuns(buf, p, out) ==
    IF p > Len(buf) THEN Ok(out)
    ELSE IF buf[p] = 0
    THEN IF p + 1 > Len(buf) \/ buf[p + 1] = ZlibCheck(out) THEN Ok(out)
         ELSE Raise("zlib.error")
    ELSE IF p + 1 > Len(buf) THEN Ok(out)
    ELSE InflateRuns(buf, p + 2, out \o Rep(buf[p + 1], buf[p]))

decompress_zlib(buf) ==
    IF Len(buf) < 2 THEN Ok(<<>>)
    ELSE IF SubSeq(buf, 1, 2) # ZLIB_HEADER THEN Raise("zlib.error")
    ELSE InflateRuns(buf, 3, <<>>)

\* decmpr_table, cmpr_table: (mask, method) in registration order
decmpr_table == <<<<CMPR_METHOD_ZLIB, "decompress_zlib">>>>
cmpr_table == <<<<CMPR_METHOD_ZLIB, "compress_zlib">>>>

\* method(buf) for a registered method
CallMethod(method, buf) ==
    IF method = "decompress_zlib" THEN decompress_zlib(buf) ELSE Ok(compress_zlib(buf))

\* the first loop of _toggle_compression: [cmpr_byte, methods] after the entries from k on
RECURSIVE SelectMethods(_, _, _, _)
SelectMethods(cmpr_byte, method_table, k, methods) ==
    IF k > Len(method_table) THEN [cmpr_byte |-> cmpr_byte, methods |-> methods]
    ELSE LET mask == method_table[k][1] IN
         IF BitAnd(mask, cmpr_byte, 8) # 0
         THEN SelectMethods(BitAnd(cmpr_byte, 255 - mask, 8), method_table, k + 1,
                            Append(methods, method_table[k][2]))
         ELSE SelectMethods(cmpr_byte, method_table, k + 1, methods)

\* the second loop: [raised, buf, applied], applied the methods called so far
RECURSIVE ApplyMethods(_, _, _, _)
ApplyMethods(methods, k, buf, applied) ==
    IF k > Len(methods) THEN [raised |-> "", buf |-> buf, applied |-> applied]
    ELSE LET r == CallMethod(methods[k], buf) IN
         IF r.raised # ""
         THEN [raised |-> r.raised, buf |-> <<>>, applied |-> Append(applied, methods[k])]
         ELSE ApplyMethods(methods, k + 1, r.buf, Append(applied, methods[k]))

\* _toggle_compression without the test of the residual bits: the variant
\* CodecDispatch is told from
_toggle_compression_lenient(cmpr_byte, buf, method_table) ==
    ApplyMethods(SelectMethods(cmpr_byte, method_table, 1, <<>>).methods, 1, buf, <<>>)

_toggle_compression(cmpr_byte, buf, method_table) ==
    LET sel == SelectMethods(cmpr_byte, method_table, 1, <<>>) IN
    IF sel.cmpr_byte # 0
    THEN [raised |-> "MethodUnsupportedError", buf |-> <<>>, applied |-> <<>>]
    ELSE ApplyMethods(sel.methods, 1, buf, <<>>)

decmpr_sector(cmpr_byte, buf) == _toggle_compression(cmpr_byte, buf, decmpr_table)
cmpr_sector(cmpr_byte, buf) == _toggle_compression(cmpr_byte, buf, cmpr_table)

\* ------------------------------------------------------------------------
\* mpq.py: artifact names
\* ------------------------------------------------------------------------
\* the characters of the names, in ASCII order
Alphabet == <<".", "0", "1", "2", "3", "4", "5", "6", "7", "8", "9", "A", "B", "C", "D", "E", "F", "G", "H", "I", "J", "K", "L", "M", "N", "O", "P", "Q", "R", "S", "T", "U", "V", "W", "X", "Y", "Z", "_", "a", "b", "c", "d", "e", "f", "g", "h", "i", "j", "k", "l", "m", "n", "o", "p", "q", "r", "s", "t", "u", "v", "w", "x", "y", "z">>
Code(c) == CHOOSE k \in 1..Len(Alphabet) : Alphabet[k] = c
DecDigits == {Alphabet[k] : k \in 2..11}
HexDigits == {Alphabet[k] : k \in 2..17}
AlnumUpper == {Alphabet[k] : k \in 2..37}
\* the digit characters "0".."9", "A".."F" by value
HexChar(d) == Alphabet[d + 2]
\* int(c, 16) of one digit character
DigitValue(c) == Code(c) - 2

\* "%0<width>X" % n
RECURSIVE FormatHex(_, _)
FormatHex(n, width) ==
    IF width <= 1 /\ n < 16 THEN <<HexChar(n)>>
    ELSE Append(FormatHex(n \div 16, width - 1), HexChar(n % 16))
\* "%0<width>d" % n
RECURSIVE FormatDec(_, _)
FormatDec(n, width) ==
    IF width <= 1 /\ n < 10 THEN <<HexChar(n)>>
    ELSE Append(FormatDec(n \div 10, width - 1), HexChar(n % 10))
\* "%08X" % w for a 32-bit word
FormatHex32(w) == FormatHex(Hi(w), 4) \o FormatHex(Lo(w), 4)

\* int(s, base) of a string of digit characters (a value below 2^31)
RECURSIVE ParseInt(_, _)
ParseInt(s, base) ==
    IF s = <<>> THEN 0
    ELSE (ParseInt(SubSeq(s, 1, Len(s) - 1), base) * base) + DigitValue(s[Len(s)])
\* int(s, 16) of eight hexadecimal digits, as a 32-bit word
ParseHex32(s) == W(ParseInt(SubSeq(s, 1, 4), 16), ParseInt(SubSeq(s, 5, 8), 16))

\* every character of s[from..to] is in class, and s is long enough
AllIn(s, from, to, class) ==
    /\ Len(s) >= to
    /\ \A k \in from..to : s[k] \in class
CharAt(s, k, c) == Len(s) >= k /\ s[k] = c

\* str.format("{hash_index:06d}_{h.dwName1:08X}_{h.dwName2:08X}_{h.lcLocale:04X}_{h.wPlatform:04X}")
FileId(hash_index, h) ==
    FormatDec(hash_index, 6) \o <<"_">> \o FormatHex32(h.dwName1) \o <<"_">>
    \o FormatHex32(h.dwName2) \o <<"_">> \o FormatHex(h.lcLocale, 4) \o <<"_">>
    \o FormatHex(h.wPlatform, 4)
\* "%s.%s" % (file_id, ext)
DecodedName(file_id, ext) == file_id \o <<".">> \o ext
\* "%s.%04d_%02X_%08X" % (file_id, i, sector_cmpr_byte, blk.dwFSize)
RawName(file_id, i, sector_cmpr_byte, dwFSize) ==
    file_id \o <<".">> \o FormatDec(i, 4) \o <<"_">> \o FormatHex(sector_cmpr_byte, 2)
    \o <<"_">> \o FormatHex32(dwFSize)

\* os.path.splitext: the name is cut at its last dot, unless no character other
\* than a dot comes before that dot
LastDot(name) ==
    LET dots == {k \in 1..Len(name) : name[k] = "."} IN
    IF dots = {} THEN 0 ELSE CHOOSE k \in dots : \A m \in dots : m <= k
SplitAt(name) ==
    LET d == LastDot(name) IN
    IF d > 0 /\ (\E k \in 1..(d - 1) : name[k] # ".") THEN d ELSE Len(name) + 1
SplitRoot(name) == SubSeq(name, 1, SplitAt(name) - 1)
SplitExt(name) == SubSeq(name, SplitAt(name), Len(name))

\* re.match("(\d{6})_([0-9A-F]{8})_([0-9A-F]{8})_([0-9A-F]{4})_([0-9A-F]{4})", fname)
MatchFileId(fname) ==
    /\ AllIn(fname, 1, 6, DecDigits) /\ CharAt(fname, 7, "_")
    /\ AllIn(fname, 8, 15, HexDigits) /\ CharAt(fname, 16, "_")
    /\ AllIn(fname, 17, 24, HexDigits) /\ CharAt(fname, 25, "_")
    /\ AllIn(fname, 26, 29, HexDigits) /\ CharAt(fname, 30, "_")
    /\ AllIn(fname, 31, 34, HexDigits)
\* map(int, fname_pattern.groups(), [10, 16, 16, 16, 16])
ParseFileId(fname) ==
    [hidx |-> ParseInt(SubSeq(fname, 1, 6), 10),
     name1 |-> ParseHex32(SubSeq(fname, 8, 15)),
     name2 |-> ParseHex32(SubSeq(fname, 17, 24)),
     locale |-> ParseInt(SubSeq(fname, 26, 29), 16),
     platform |-> ParseInt(SubSeq(fname, 31, 34), 16)]

\* re.match("\d{4}_([0-9A-Z]{2})_([0-9A-Z]{8})", ext): the match starts at ext[0]
MatchPrecompressed(ext) ==
    /\ AllIn(ext, 1, 4, DecDigits) /\ CharAt(ext, 5, "_")
    /\ AllIn(ext, 6, 7, AlnumUpper) /\ CharAt(ext, 8, "_")
    /\ AllIn(ext, 9, 16, AlnumUpper)

\* a < b for strings, as sorted() compares them
RECURSIVE StrLess(_, _)
StrLess(a, b) ==
    IF b = <<>> THEN FALSE
    ELSE IF a = <<>> THEN TRUE
    ELSE IF a[1] # b[1] THEN Code(a[1]) < Code(b[1])
    ELSE StrLess(Tail(a), Tail(b))
\* sorted(ext_list) for a set of distinct strings
RECURSIVE Sorted(_)
Sorted(S) ==
    IF S = {} THEN <<>>
    ELSE LET least == CHOOSE a \in S : \A b \in S \ {a} : StrLess(a, b)
         IN  <<least>> \o Sorted(S \ {least})

\* ------------------------------------------------------------------------
\* mpq.py: data2ext, the extension guessed from the first ten bytes
\* ------------------------------------------------------------------------
HasPrefix(d, p) == Len(d) >= Len(p) /\ SubSeq(d, 1, Len(p)) = p
Contains(d, p) == \E k \in 0..(Len(d) - Len(p)) : SubSeq(d, k + 1, k + Len(p)) = p
\* [!-~\s] on bytes
Printable(b) == (b >= 33 /\ b <= 126) \/ b = 32 \/ (b >= 9 /\ b <= 13)

Is_wav(d) == HasPrefix(d, <<82, 73, 70, 70>>)
Is_html(d) == HasPrefix(d, <<60, 104, 116, 109>>) \/ HasPrefix(d, <<60, 72, 84, 77>>)
Is_tbl(d) == HasPrefix(d, <<87, 111, 111, 33>>)
Is_blp(d) == \E v \in {48, 49, 50} : HasPrefix(d, <<66, 76, 80>> \o <<v>>)
Is_mdx(d) == HasPrefix(d, <<77, 68, 76, 88>>)
Is_gif(d) == HasPrefix(d, <<71, 73, 70, 56>>)
Is_jpg(d) == HasPrefix(d, <<255, 216, 255, 224>>)
Is_lua(d) == HasPrefix(d, <<27, 76, 117, 97>>)
Is_dds(d) == HasPrefix(d, <<68, 68, 83, 32>>)
Is_flac(d) == HasPrefix(d, <<102, 76, 97, 67>>)
Is_mp3(d) ==
    \/ \E v \in {242, 243, 251} : HasPrefix(d, <<255, v>>)
    \/ Contains(d, <<73, 68, 51>>)
Is_doo(d) == HasPrefix(d, <<87, 51, 100, 111>>)
Is_w3e(d) == HasPrefix(d, <<87, 51, 69, 33>>)
Is_wpm(d) == HasPrefix(d, <<77, 80, 51, 87>>)
Is_wtg(d) == HasPrefix(d, <<87, 84, 71, 33>>)
Is_txt(d) == d # <<>> /\ \A k \in 1..Len(d) : Printable(d[k])

\* the first pattern of data2ext that re.search finds in decmpr_data[0:10], else "bin"
GuessExt(decmpr_data) ==
    LET d == SubSeq(decmpr_data, 1, Min(10, Len(decmpr_data))) IN
    IF Is_wav(d) THEN <<"w", "a", "v">>
    ELSE IF Is_html(d) THEN <<"h", "t", "m", "l">>
    ELSE IF Is_tbl(d) THEN <<"t", "b", "l">>
    ELSE IF Is_blp(d) THEN <<"b", "l", "p">>
    ELSE IF Is_mdx(d) THEN <<"m", "d", "x">>
    ELSE IF Is_gif(d) THEN <<"g", "i", "f">>
    ELSE IF Is_jpg(d) THEN <<"j", "p", "g">>
    ELSE IF Is_lua(d) THEN <<"l", "u", "a">>
    ELSE IF Is_dds(d) THEN <<"d", "d", "s">>
    ELSE IF Is_flac(d) THEN <<"f", "l", "a", "c">>
    ELSE IF Is_mp3(d) THEN <<"m", "p", "3">>
    ELSE IF Is_doo(d) THEN <<"d", "o", "o">>
    ELSE IF Is_w3e(d) THEN <<"w", "3", "e">>
    ELSE IF Is_wpm(d) THEN <<"w", "p", "m">>
    ELSE IF Is_wtg(d) THEN <<"w", "t", "g">>
    ELSE IF Is_txt(d) THEN <<"t", "x", "t">>
    ELSE <<"b", "i", "n">>

\* ------------------------------------------------------------------------
\* mpq.py: class MpqArchive
\* ------------------------------------------------------------------------
SECTOR_UNIT == 512
NEVER_USED == W(65535, 65535)
\* blk.dwFlags & MPQ_FILE_COMPRESS_MASK, the mask being 0x0000FF00
IsCompressed(dwFlags) == (Lo(dwFlags) \div 256) # 0
\* MPQ_FILE_EXISTS | MPQ_FILE_COMPRESS
FLAGS_EXISTS_COMPRESS == W(32768, 512)

\* MpqArchive(): a zero header, no tables yet
NewArchive == [header |-> ZeroHeader, sector_size |-> 0, htable |-> <<>>, btable |-> <<>>]

\* sector_size = 512 * (1 << wBlockSize)
read_header(mpq, fin) ==
    LET header == ParseHeader(ReadInto(fin, 0, SIZEOF_HEADER)) IN
    [mpq EXCEPT !.header = header, !.sector_size = SECTOR_UNIT * Pow2(header.wBlockSize)]

read_table(fin, pos, count, ttype, key) ==
    LET buf32 == DecryptMpqBlock(BytesToWords(ReadInto(fin, pos, count * SIZEOF_ENTRY)), key) IN
    [k \in 1..count |-> IF ttype = "MpqHash" THEN WordsHash(buf32, k - 1)
                        ELSE WordsBlock(buf32, k - 1)]

read_tables(mpq, fin) ==
    [mpq EXCEPT
        !.htable = read_table(fin, ToNat(mpq.header.dwHashTablePos),
                              ToNat(mpq.header.dwHashTableSize), "MpqHash", MPQ_KEY_HASH_TABLE),
        !.btable = read_table(fin, ToNat(mpq.header.dwBlockTablePos),
                              ToNat(mpq.header.dwBlockTableSize), "MpqBlock", MPQ_KEY_BLOCK_TABLE)]

\* the bytes write_table appends to fout
write_table(count, ttype, table, key) ==
    LET rows == SubSeq(table, 1, count)
        buf32 == IF ttype = "MpqHash" THEN HashTableWords(rows) ELSE BlockTableWords(rows)
    IN  WordsToBytes(EncryptMpqBlock(buf32, key))

\* ------------------------------------------------------------------------
\* mpq.py: extract_mpq, the body of the loop for one hash-table entry
\* ------------------------------------------------------------------------
\* mpq_fin.read(n) at position pos: [raised, buf]
FileRead(fin, pos, n) ==
    IF n < -1 THEN Raise("ValueError")
    ELSE IF n = -1 THEN Ok(ReadAt(fin, pos, Len(fin)))
    ELSE Ok(ReadAt(fin, pos, n))

\* sector_offset_table[0..n_sectors], read at blk.dwFilePos
ReadOffsetTable(fin, blk, n_sectors) ==
    LET raw == ReadInto(fin, ToNat(blk.dwFilePos), 4 * (n_sectors + 1)) IN
    [j \in 0..n_sectors |-> I32At(raw, 4 * j)]

\* the loop over the sectors from j on: [raised, decmpr_data, cmpr_data]
RECURSIVE ReadSectors(_, _, _, _, _, _)
ReadSectors(fin, blk, sector_offset_table, n_sectors, j, acc) ==
    IF j >= n_sectors \/ acc.raised # "" THEN acc
    ELSE LET sector_pos == ToNat(blk.dwFilePos) + sector_offset_table[j]
             sector_size == sector_offset_table[j + 1] - sector_offset_table[j]
         IN
         IF sector_pos < 0 THEN [acc EXCEPT !.raised = "OSError"]
         ELSE IF IsCompressed(blk.dwFlags)
         THEN LET first == ReadAt(fin, sector_pos, 1)
                  rest == FileRead(fin, sector_pos + Len(first), sector_size - 1)
              IN  IF first = <<>> THEN [acc EXCEPT !.raised = "TypeError"]
                  ELSE IF rest.raised # "" THEN [acc EXCEPT !.raised = rest.raised]
                  ELSE ReadSectors(fin, blk, sector_offset_table, n_sectors, j + 1,
                          [acc EXCEPT !.cmpr_data = Append(@, <<first[1], rest.buf>>)])
         ELSE LET got == FileRead(fin, sector_pos, sector_size) IN
              IF got.raised # "" THEN [acc EXCEPT !.raised = got.raised]
              ELSE ReadSectors(fin, blk, sector_offset_table, n_sectors, j + 1,
                      [acc EXCEPT !.decmpr_data = @ \o got.buf])

\* DecodeSectors with the except clause keeping what the earlier sectors decoded
\* to: the variant UnsupportedFallback is told from
RECURSIVE DecodeSectorsKeeping(_, _, _)
DecodeSectorsKeeping(cmpr_data, k, decmpr_data) ==
    IF k > Len(cmpr_data) THEN Ok(decmpr_data)
    ELSE LET r == decmpr_sector(cmpr_data[k][1], cmpr_data[k][2]) IN
         IF r.raised = "MethodUnsupportedError" THEN Ok(decmpr_data)
         ELSE IF r.raised # "" THEN Raise(r.raised)
         ELSE DecodeSectorsKeeping(cmpr_data, k + 1, decmpr_data \o r.buf)

\* the try block: decmpr_data += cmpr.decmpr_sector(...) for the sectors from k on;
\* MethodUnsupportedError is caught and empties decmpr_data, anything else escapes
RECURSIVE DecodeSectors(_, _, _)
DecodeSectors(cmpr_data, k, decmpr_data) ==
    IF k > Len(cmpr_data) THEN Ok(decmpr_data)
    ELSE LET r == decmpr_sector(cmpr_data[k][1], cmpr_data[k][2]) IN
         IF r.raised = "MethodUnsupportedError" THEN Ok(<<>>)
         ELSE IF r.raised # "" THEN Raise(r.raised)
         ELSE DecodeSectors(cmpr_data, k + 1, decmpr_data \o r.buf)

\* the files written for entry i: [raised, writes], writes a sequence of <<fname, data>>
ExtractFile(mpq, fin, i) ==
    LET htent == mpq.htable[i + 1]
        blk == mpq.btable[ToNat(htent.dwBlockIndex) + 1]
        n_sectors == 1 + (ToNat(blk.dwFSize) \div mpq.sector_size)
        sector_offset_table == ReadOffsetTable(fin, blk, n_sectors)
        read == ReadSectors(fin, blk, sector_offset_table, n_sectors, 0,
                            [raised |-> "", decmpr_data |-> <<>>, cmpr_data |-> <<>>])
        decoded == IF IsCompressed(blk.dwFlags)
                   THEN DecodeSectors(read.cmpr_data, 1, read.decmpr_data)
                   ELSE Ok(read.decmpr_data)
        file_id == FileId(i, htent)
    IN
    IF read.raised # "" THEN [raised |-> read.raised, writes |-> <<>>]
    ELSE IF decoded.raised # "" THEN [raised |-> decoded.raised, writes |-> <<>>]
    ELSE IF decoded.buf # <<>>
    THEN [raised |-> "",
          writes |-> <<<<DecodedName(file_id, GuessExt(decoded.buf)), decoded.buf>>>>]
    ELSE [raised |-> "",
          writes |-> [k \in 1..Len(read.cmpr_data) |->
                        <<RawName(file_id, k - 1, read.cmpr_data[k][1], blk.dwFSize),
                          read.cmpr_data[k][2]>>]]

\* open(fname, "wb").write(data) for each of writes, in order, on directory dir
RECURSIVE WriteFiles(_, _)
WriteFiles(dir, writes) ==
    IF writes = <<>> THEN dir
    ELSE LET fname == writes[1][1] IN
         WriteFiles([n \in (DOMAIN dir) \cup {fname} |->
                        IF n = fname THEN writes[1][2] ELSE dir[n]],
                    Tail(writes))

\* ------------------------------------------------------------------------
\* mpq.py: assemble_mpq
\* ------------------------------------------------------------------------
\* mpq.htable[i].dwBlockIndex = 0xFFFFFFFFF, a 36-bit value stored in a c_uint32
INITIAL_BLOCK_INDEX == Mask32(W(1048575, 65535))
\* the hash table as ctypes allocates it, every field zero: the variant
\* AssembledHashTable is told from
InitialHashTableZeroed(count) ==
    [k \in 1..count |-> [dwName1 |-> W(0, 0), dwName2 |-> W(0, 0), lcLocale |-> 0,
                         wPlatform |-> 0, dwBlockIndex |-> W(0, 0)]]

\* (MpqHash * dwHashTableSize)() with every dwBlockIndex set
InitialHashTable(count) ==
    [k \in 1..count |-> [dwName1 |-> W(0, 0), dwName2 |-> W(0, 0), lcLocale |-> 0,
                         wPlatform |-> 0, dwBlockIndex |-> INITIAL_BLOCK_INDEX]]

\* file_to_exts: the extensions of the names of src_files_anon with root fname
Roots(names) == {SplitRoot(n) : n \in names}
ExtsOf(names, fname) == {SplitExt(n) : n \in {m \in names : SplitRoot(m) = fname}}

\* block.dwCSize += n, block.dwFSize += n on c_uint32 fields
AddTo(w, n) == Mask32(Add(w, FromNat(n)))

\* the while loop over one artifact's chunks, from offset off of its data.
\* st: [raised, fout, block, table, next_sector_idx]; table[k + 1] is
\* sector_offset_table[k]
RECURSIVE AssembleChunks(_, _, _, _, _, _)
AssembleChunks(st, data, off, ext, sector_size, n_sectors) ==
    LET file_data == ReadAt(data, off, sector_size) IN
    IF st.raised # "" \/ file_data = <<>> THEN st
    ELSE IF MatchPrecompressed(ext)
    THEN \* assert(sector_size < mpq.sector_size), then int() of a tuple raises
         [st EXCEPT !.raised = IF Len(file_data) + 1 < sector_size
                               THEN "TypeError" ELSE "AssertionError"]
    ELSE LET cmpr_data == cmpr_sector(CMPR_METHOD_ZLIB, file_data).buf
             written == [st EXCEPT
                 !.block.dwFSize = AddTo(@, Len(file_data)),
                 !.block.dwCSize = AddTo(@, Len(cmpr_data)),
                 !.fout = @ \o <<CMPR_METHOD_ZLIB>> \o cmpr_data]
         IN
         IF st.next_sector_idx > n_sectors THEN [written EXCEPT !.raised = "IndexError"]
         ELSE AssembleChunks(
                 [written EXCEPT
                     !.table[st.next_sector_idx + 1] =
                         st.table[st.next_sector_idx] + Len(cmpr_data) + 1,
                     !.next_sector_idx = @ + 1],
                 data, off + Len(file_data), ext, sector_size, n_sectors)

\* for ext in sorted(ext_list), from the k-th on
RECURSIVE AssembleExts(_, _, _, _, _, _, _)
AssembleExts(st, dir, fname, exts, k, sector_size, n_sectors) ==
    IF k > Len(exts) \/ st.raised # "" THEN st
    ELSE AssembleExts(
            AssembleChunks(st, dir[fname \o exts[k]], 0, exts[k], sector_size, n_sectors),
            dir, fname, exts, k + 1, sector_size, n_sectors)

\* one pass of the loop over file_to_exts.items().
\* asm: [raised, mpq, fout, block_data]
AssembleGroup(asm, dir, fname) ==
    LET ext_list == ExtsOf(DOMAIN dir, fname)
        id == ParseFileId(fname)
    IN
    IF ~MatchFileId(fname) THEN [asm EXCEPT !.raised = "AssertionError"]
    ELSE IF ~(id.hidx < ToNat(asm.mpq.header.dwHashTableSize))
    THEN [asm EXCEPT !.raised = "AssertionError"]
    ELSE
    LET htent == [dwName1 |-> id.name1, dwName2 |-> id.name2, lcLocale |-> id.locale,
                  wPlatform |-> id.platform,
                  dwBlockIndex |-> FromNat(Len(asm.block_data) \div SIZEOF_ENTRY)]
        only == CHOOSE e \in ext_list : TRUE
        n_sectors == IF Cardinality(ext_list) > 1 THEN Cardinality(ext_list)
                     ELSE 1 + (Len(dir[fname \o only]) \div asm.mpq.sector_size)
        sector_table_pos == Len(asm.fout)
        st == AssembleExts(
                 [raised |-> "",
                  fout |-> asm.fout \o Zeros(4 * (n_sectors + 1)),
                  block |-> [dwFilePos |-> W(0, 0), dwCSize |-> W(0, 0),
                             dwFSize |-> W(0, 0), dwFlags |-> W(0, 0)],
                  table |-> [k \in 1..(n_sectors + 1) |->
                                IF k = 1 THEN 4 * (n_sectors + 1) ELSE 0],
                  next_sector_idx |-> 1],
                 dir, fname, Sorted(ext_list), 1, asm.mpq.sector_size, n_sectors)
        block == [st.block EXCEPT !.dwFilePos = FromNat(sector_table_pos),
                                  !.dwFlags = FLAGS_EXISTS_COMPRESS]
        withEntry == [asm EXCEPT !.mpq.htable[id.hidx + 1] = htent]
    IN
    IF st.raised # "" THEN [withEntry EXCEPT !.raised = st.raised, !.fout = st.fout]
    ELSE [withEntry EXCEPT
             !.fout = WriteAt(st.fout, sector_table_pos, I32ArrayBytes(st.table)),
             !.block_data = @ \o WordsToBytes(BlockWords(block))]

\* lines 254-265: the header snapshot read and copied, the hash table allocated
AssembleOpen(header_file) ==
    LET mpq == read_header(NewArchive, header_file) IN
    [raised |-> "",
     mpq |-> [mpq EXCEPT !.htable = InitialHashTable(ToNat(mpq.header.dwHashTableSize))],
     fout |-> header_file,
     block_data |-> <<>>]

\* lines 341-355: the tables appended and the header rewritten
AssembleClose(asm) ==
    LET hpos == Len(asm.fout)
        withHash == asm.fout \o write_table(ToNat(asm.mpq.header.dwHashTableSize), "MpqHash",
                                            asm.mpq.htable, MPQ_KEY_HASH_TABLE)
        bpos == Len(withHash)
        count == Len(asm.block_data) \div SIZEOF_ENTRY
        words == BytesToWords(asm.block_data)
        btable == [k \in 1..count |-> WordsBlock(words, k - 1)]
        withBlock == withHash \o write_table(count, "MpqBlock", btable, MPQ_KEY_BLOCK_TABLE)
        header == [asm.mpq.header EXCEPT
                      !.dwHashTablePos = FromNat(hpos),
                      !.dwBlockTablePos = FromNat(bpos),
                      !.dwBlockTableSize = FromNat(count),
                      !.dwArchiveSize = FromNat(Len(withBlock) + SIZEOF_HEADER)]
    IN  [asm EXCEPT !.mpq.header = header, !.mpq.btable = btable,
                    !.fout = WriteAt(withBlock, 0, HeaderBytes(header))]

\* ------------------------------------------------------------------------
\* The archives the model is run on
\* ------------------------------------------------------------------------
\* number of hash-table slots of an archive
HtSlots == 2

FLAGS_EXISTS == W(32768, 0)
ID_MPQ == W(6737, 20557)
DELETED == W(65535, 65534)

Text5 == <<104, 101, 108, 108, 111>>
Riff8 == <<82, 73, 70, 70, 0, 1, 2, 3>>
Tail3 == <<98, 99, 100>>
\* a sector of a compressed file: the method byte, then the deflated payload
Deflated(data) == <<CMPR_METHOD_ZLIB>> \o compress_zlib(data)

FileKinds ==
    {"text", "two", "unsup", "mixed", "corrupt", "late", "exact", "empty", "emptyraw", "stored"}
SlotKinds == {"E", "D", "O"} \cup FileKinds

\* a stored file: its flags, its declared size and its sectors as they lie on disk
FileOf(kind) ==
    CASE kind = "text" ->
            [dwFlags |-> FLAGS_EXISTS_COMPRESS, dwFSize |-> 5, sectors |-> <<Deflated(Text5)>>]
      [] kind = "two" ->
            [dwFlags |-> FLAGS_EXISTS_COMPRESS, dwFSize |-> SECTOR_UNIT + 3,
             sectors |-> <<Deflated(Rep(97, SECTOR_UNIT)), Deflated(Tail3)>>]
      [] kind = "unsup" ->
            [dwFlags |-> FLAGS_EXISTS_COMPRESS, dwFSize |-> 3, sectors |-> <<<<8, 1, 2, 3>>>>]
      [] kind = "mixed" ->
            [dwFlags |-> FLAGS_EXISTS_COMPRESS, dwFSize |-> SECTOR_UNIT + 88,
             sectors |-> <<Deflated(Rep(97, SECTOR_UNIT)), <<18, 9, 9>>>>]
      [] kind = "corrupt" ->
            [dwFlags |-> FLAGS_EXISTS_COMPRESS, dwFSize |-> SECTOR_UNIT + 88,
             sectors |-> <<<<CMPR_METHOD_ZLIB, 7, 7, 7>>, <<18, 9, 9>>>>]
      [] kind = "late" ->
            [dwFlags |-> FLAGS_EXISTS_COMPRESS, dwFSize |-> SECTOR_UNIT + 88,
             sectors |-> <<<<8, 1, 2, 3>>, <<CMPR_METHOD_ZLIB, 7, 7, 7>>>>]
      [] kind = "exact" ->
            [dwFlags |-> FLAGS_EXISTS_COMPRESS, dwFSize |-> SECTOR_UNIT,
             sectors |-> <<Deflated(Rep(97, SECTOR_UNIT)), Deflated(<<>>)>>]
      [] kind = "empty" ->
            [dwFlags |-> FLAGS_EXISTS_COMPRESS, dwFSize |-> 0, sectors |-> <<Deflated(<<>>)>>]
      [] kind = "emptyraw" ->
            [dwFlags |-> FLAGS_EXISTS_COMPRESS, dwFSize |-> 0, sectors |-> <<<<8>>>>]
      [] OTHER ->
            [dwFlags |-> FLAGS_EXISTS, dwFSize |-> 8, sectors |-> <<Riff8>>]

\* the sector offset table of a file, then its sectors
RECURSIVE Concat(_)
Concat(ss) == IF ss = <<>> THEN <<>> ELSE ss[1] \o Concat(Tail(ss))
RECURSIVE OffsetsOf(_, _)
OffsetsOf(sectors, start) ==
    IF sectors = <<>> THEN <<start>>
    ELSE <<start>> \o OffsetsOf(Tail(sectors), start + Len(sectors[1]))
FileData(f) ==
    I32ArrayBytes(OffsetsOf(f.sectors, 4 * (Len(f.sectors) + 1))) \o Concat(f.sectors)

\* the files by kind, and each as it lies in the archive
Files == [kind \in FileKinds |-> FileOf(kind)]
FileBytes == [kind \in FileKinds |-> FileData(Files[kind])]

NumFiles(slots) == Cardinality({k \in 1..Len(slots) : slots[k] \in FileKinds})

\* the name digests, locale and platform of the entry in slot k (0-based)
EntryOf(k, dwBlockIndex) ==
    [dwName1 |-> W(43981, k + 16), dwName2 |-> W(k, 61185), lcLocale |-> 1033,
     wPlatform |-> k, dwBlockIndex |-> dwBlockIndex]
EmptyEntry ==
    [dwName1 |-> NEVER_USED, dwName2 |-> NEVER_USED, lcLocale |-> 65535,
     wPlatform |-> 65535, dwBlockIndex |-> NEVER_USED]

\* slot after slot: the file data laid out after the header, and both tables
RECURSIVE Layout(_, _, _)
Layout(slots, k, acc) ==
    IF k > Len(slots) THEN acc
    ELSE IF slots[k] = "E"
    THEN Layout(slots, k + 1, [acc EXCEPT !.htable = Append(@, EmptyEntry)])
    ELSE IF slots[k] = "D"
    THEN Layout(slots, k + 1, [acc EXCEPT !.htable = Append(@, EntryOf(k - 1, DELETED))])
    ELSE IF slots[k] = "O"
    THEN Layout(slots, k + 1,
            [acc EXCEPT !.htable = Append(@, EntryOf(k - 1, FromNat(NumFiles(slots))))])
    ELSE LET f == Files[slots[k]]
             data == FileBytes[slots[k]]
             blk == [dwFilePos |-> FromNat(SIZEOF_HEADER + Len(acc.data)),
                     dwCSize |-> FromNat(Len(data)), dwFSize |-> FromNat(f.dwFSize),
                     dwFlags |-> f.dwFlags]
         IN  Layout(slots, k + 1,
                [data |-> acc.data \o data,
                 htable |-> Append(acc.htable, EntryOf(k - 1, FromNat(Len(acc.btable)))),
                 btable |-> Append(acc.btable, blk)])

\* a well-formed archive: header, file data, hash table, block table
MakeArchive(slots) ==
    LET lay == Layout(slots, 1, [data |-> <<>>, htable |-> <<>>, btable |-> <<>>])
        hpos == SIZEOF_HEADER + Len(lay.data)
        bpos == hpos + (SIZEOF_ENTRY * Len(lay.htable))
        header == [dwID |-> ID_MPQ, dwHeaderSize |-> FromNat(SIZEOF_HEADER),
                   dwArchiveSize |-> FromNat(bpos + (SIZEOF_ENTRY * Len(lay.btable))),
                   wFormatVersion |-> 0, wBlockSize |-> 0,
                   dwHashTablePos |-> FromNat(hpos), dwBlockTablePos |-> FromNat(bpos),
                   dwHashTableSize |-> FromNat(Len(lay.htable)),
                   dwBlockTableSize |-> FromNat(Len(lay.btable))]
    IN  HeaderBytes(header) \o lay.data
        \o write_table(Len(lay.htable), "MpqHash", lay.htable, MPQ_KEY_HASH_TABLE)
        \o write_table(Len(lay.btable), "MpqBlock", lay.btable, MPQ_KEY_BLOCK_TABLE)

\* ------------------------------------------------------------------------
\* The directories "create" is run on that "extract" did not write
\* ------------------------------------------------------------------------
\* header.bin of an archive of HtSlots never-used slots
EmptyHeaderFile == SubSeq(MakeArchive([k \in 1..HtSlots |-> "E"]), 1, SIZEOF_HEADER)

DirKinds == {"shared", "zero", "foreign", "beyond", "long"}
\* contents_anonymous by kind, as the <<fname, data>> it holds
DirOf(kind) ==
    LET txt == <<"t", "x", "t">>
        id0 == FileId(0, EntryOf(0, NEVER_USED))
        id1 == FileId(0, EntryOf(1, NEVER_USED))
    IN
    CASE kind = "shared" ->
            \* two file ids of one hash index
            WriteFiles(<<>>, <<<<DecodedName(id0, txt), Text5>>,
                               <<DecodedName(id1, txt), Tail3>>>>)
      [] kind = "zero" ->
            WriteFiles(<<>>, <<<<DecodedName(id0, <<"b", "i", "n">>), <<>>>>>>)
      [] kind = "foreign" ->
            WriteFiles(<<>>, <<<<<<"r", "e", "a", "d", "m", "e", ".", "t", "x", "t">>, Text5>>>>)
      [] kind = "beyond" ->
            WriteFiles(<<>>, <<<<DecodedName(FileId(HtSlots, EntryOf(0, NEVER_USED)), txt),
                                 Text5>>>>)
      [] OTHER ->
            \* two sector files, the first longer than a sector
            WriteFiles(<<>>, <<<<RawName(id0, 0, 8, W(0, SECTOR_UNIT + 91)),
                                 Rep(97, SECTOR_UNIT + 88)>>,
                               <<RawName(id0, 1, 8, W(0, SECTOR_UNIT + 91)), Tail3>>>>)
Directories == {DirOf(kind) : kind \in DirKinds}

\* ------------------------------------------------------------------------
\* State
\* ------------------------------------------------------------------------
VARIABLES
    pc,           \* where main() is
    layout,       \* the slots the archive was laid out from
    fin,          \* the archive file
    mpq,          \* the MpqArchive of the extract run
    i,            \* extract_mpq: the index of the next hash-table entry
    visited,      \* extract_mpq: the entries whose file was processed
    header_file,  \* dest_dir/header.bin
    dir,          \* dest_dir/contents_anonymous: file name -> data
    raised,       \* the exception that ended the run, "" if none
    asm,          \* assemble_mpq: its MpqArchive, fout_dest and block_data
    todo,         \* assemble_mpq: the roots of file_to_exts not yet handled
    order,        \* assemble_mpq: the roots handled so far, in the order of the loop
    crypt,        \* the block cipher: key, buffer, and the buffer it started from
    codec         \* the sector codec: method mask, payload, and the call's result

vars == <<pc, layout, fin, mpq, i, visited, header_file, dir, raised, asm, todo, order, crypt, codec>>
archiveVars == <<layout, fin, mpq, i, visited, header_file, dir, raised, asm, todo, order>>

NoAsm == [raised |-> "", mpq |-> NewArchive, fout |-> <<>>, block_data |-> <<>>]
NoCrypt == [key |-> W(0, 0), buf |-> <<>>, plain |-> <<>>]
NoCodec == [cmpr_byte |-> 0, buf |-> <<>>, op |-> "", result |-> Ok(<<>>)]

ArchiveIdle ==
    /\ layout = <<>> /\ fin = <<>> /\ mpq = NewArchive /\ i = 0 /\ visited = {}
    /\ header_file = <<>> /\ dir = <<>> /\ raised = "" /\ asm = NoAsm /\ todo = {}
    /\ order = <<>>

\* ------------------------------------------------------------------------
\* main(): "extract" of an archive then "create" of its directory, or "create" alone
\* ------------------------------------------------------------------------
Init ==
    /\ \/ /\ pc = "closed"
          /\ layout \in [1..HtSlots -> SlotKinds]
          /\ fin = MakeArchive(layout)
          /\ header_file = <<>> /\ dir = <<>>
       \/ /\ pc = "directory"
          /\ layout = <<>> /\ fin = <<>>
          /\ header_file = EmptyHeaderFile /\ dir \in Directories
    /\ mpq = NewArchive /\ i = 0 /\ visited = {}
    /\ raised = "" /\ asm = NoAsm /\ todo = {}
    /\ order = <<>>
    /\ crypt = NoCrypt /\ codec = NoCodec

\* mpq.read_header(mpq_fin); mpq.read_tables(mpq_fin)
Open ==
    /\ pc = "closed"
    /\ mpq' = read_tables(read_header(mpq, fin), fin)
    /\ pc' = "opened"
    /\ UNCHANGED <<layout, fin, i, visited, header_file, dir, raised, asm, todo, order, crypt, codec>>

\* extract_mpq up to the loop: the header snapshot is written
ExtractBegin ==
    /\ pc = "opened"
    /\ header_file' = HeaderBytes(mpq.header)
    /\ i' = 0
    /\ pc' = "scan"
    /\ UNCHANGED <<layout, fin, mpq, visited, dir, raised, asm, todo, order, crypt, codec>>

\* if htent.dwBlockIndex == 0xFFFFFFFF: continue
ExtractSkip ==
    /\ pc = "scan" /\ i < Len(mpq.htable)
    /\ mpq.htable[i + 1].dwBlockIndex = NEVER_USED
    /\ i' = i + 1
    /\ UNCHANGED <<pc, layout, fin, mpq, visited, header_file, dir, raised, asm, todo, order, crypt, codec>>

\* the out-of-range test ending in "continue" instead of "break": the variant
\* OutOfRangeAborts is told from
ExtractBreakAsContinue ==
    /\ pc = "scan" /\ i < Len(mpq.htable)
    /\ mpq.htable[i + 1].dwBlockIndex # NEVER_USED
    /\ WordGe(mpq.htable[i + 1].dwBlockIndex, Len(mpq.btable))
    /\ i' = i + 1
    /\ UNCHANGED <<pc, layout, fin, mpq, visited, header_file, dir, raised, asm, todo, order, crypt, codec>>

\* if htent.dwBlockIndex >= len(mpq.btable): break
ExtractBreak ==
    /\ pc = "scan" /\ i < Len(mpq.htable)
    /\ mpq.htable[i + 1].dwBlockIndex # NEVER_USED
    /\ WordGe(mpq.htable[i + 1].dwBlockIndex, Len(mpq.btable))
    /\ pc' = "extracted"
    /\ UNCHANGED <<layout, fin, mpq, i, visited, header_file, dir, raised, asm, todo, order, crypt, codec>>

\* the rest of the loop body: the entry's file is read, decoded and written
ExtractEntry ==
    /\ pc = "scan" /\ i < Len(mpq.htable)
    /\ mpq.htable[i + 1].dwBlockIndex # NEVER_USED
    /\ ~WordGe(mpq.htable[i + 1].dwBlockIndex, Len(mpq.btable))
    /\ LET r == ExtractFile(mpq, fin, i) IN
       /\ raised' = r.raised
       /\ pc' = IF r.raised # "" THEN "extract_raised" ELSE "scan"
       /\ dir' = WriteFiles(dir, r.writes)
       /\ i' = IF r.raised # "" THEN i ELSE i + 1
    /\ visited' = visited \cup {i}
    /\ UNCHANGED <<layout, fin, mpq, header_file, asm, todo, order, crypt, codec>>

\* the loop ran through the whole table
ExtractEnd ==
    /\ pc = "scan" /\ i = Len(mpq.htable)
    /\ pc' = "extracted"
    /\ UNCHANGED <<layout, fin, mpq, i, visited, header_file, dir, raised, asm, todo, order, crypt, codec>>

\* assemble_mpq up to the loop over file_to_exts
AssembleBegin ==
    /\ pc \in {"extracted", "directory"}
    /\ asm' = AssembleOpen(header_file)
    /\ todo' = Roots(DOMAIN dir)
    /\ pc' = "groups"
    /\ UNCHANGED <<layout, fin, mpq, i, visited, header_file, dir, raised, order, crypt, codec>>

\* one group of file_to_exts; os.listdir fixes no order, so any pending root is next
AssembleNext ==
    /\ pc = "groups"
    /\ \E fname \in todo :
          LET next == AssembleGroup(asm, dir, fname) IN
          /\ asm' = next
          /\ todo' = todo \ {fname}
          /\ order' = Append(order, fname)
          /\ raised' = next.raised
          /\ pc' = IF next.raised # "" THEN "assemble_raised" ELSE "groups"
    /\ UNCHANGED <<layout, fin, mpq, i, visited, header_file, dir, crypt, codec>>

\* the tables are written and the header rewritten
AssembleEnd ==
    /\ pc = "groups" /\ todo = {}
    /\ asm' = AssembleClose(asm)
    /\ pc' = "assembled"
    /\ UNCHANGED <<layout, fin, mpq, i, visited, header_file, dir, raised, todo, order, crypt, codec>>

Next ==
    \/ Open
    \/ ExtractBegin
    \/ ExtractSkip
    \/ ExtractBreak
    \/ ExtractEntry
    \/ ExtractEnd
    \/ AssembleBegin
    \/ AssembleNext
    \/ AssembleEnd

Spec == Init /\ [][Next]_vars

\* ------------------------------------------------------------------------
\* The block cipher on its own: a buffer is encrypted, then decrypted
\* ------------------------------------------------------------------------
CryptKeys == {W(0, 0), W(65535, 65535), W(4660, 255), MPQ_KEY_HASH_TABLE, MPQ_KEY_BLOCK_TABLE}
CryptWords == {W(0, 0), W(65535, 65535), W(43981, 4660)}
CryptBuffers == UNION {[1..n -> CryptWords] : n \in 0..MaxBufLen}

InitCrypt ==
    /\ pc = "plain"
    /\ \E k \in CryptKeys, b \in CryptBuffers : crypt = [key |-> k, buf |-> b, plain |-> b]
    /\ codec = NoCodec
    /\ ArchiveIdle

Encrypt ==
    /\ pc = "plain"
    /\ crypt' = [crypt EXCEPT !.buf = EncryptMpqBlock(@, crypt.key)]
    /\ pc' = "encrypted"
    /\ UNCHANGED <<archiveVars, codec>>

Decrypt ==
    /\ pc = "encrypted"
    /\ crypt' = [crypt EXCEPT !.buf = DecryptMpqBlock(@, crypt.key)]
    /\ pc' = "decrypted"
    /\ UNCHANGED <<archiveVars, codec>>

NextCrypt == Encrypt \/ Decrypt
SpecCrypt == InitCrypt /\ [][NextCrypt]_vars

\* ------------------------------------------------------------------------
\* The sector codec on its own: one call of decmpr_sector or cmpr_sector
\* ------------------------------------------------------------------------
CodecPayloads == {<<>>, Text5, compress_zlib(Text5), <<7, 7, 7>>}

InitCodec ==
    /\ pc = "sector"
    /\ \E m \in 0..255, b \in CodecPayloads :
          codec = [cmpr_byte |-> m, buf |-> b, op |-> "", result |-> Ok(<<>>)]
    /\ crypt = NoCrypt
    /\ ArchiveIdle

Decode ==
    /\ pc = "sector"
    /\ codec' = [codec EXCEPT !.op = "decmpr_sector",
                              !.result = decmpr_sector(codec.cmpr_byte, codec.buf)]
    /\ pc' = "returned"
    /\ UNCHANGED <<archiveVars, crypt>>

Encode ==
    /\ pc = "sector"
    /\ codec' = [codec EXCEPT !.op = "cmpr_sector",
                              !.result = cmpr_sector(codec.cmpr_byte, codec.buf)]
    /\ pc' = "returned"
    /\ UNCHANGED <<archiveVars, crypt>>

NextCodec == Decode \/ Encode
SpecCodec == InitCodec /\ [][NextCodec]_vars

\* ========================================================================
\* Properties
\* ========================================================================
Is32(w) == Hi(w) \in 0..(M16 - 1) /\ Lo(w) \in 0..(M16 - 1)

\* C2: EncryptMpqBlock followed by DecryptMpqBlock with the same key gives the
\* buffer back, whatever the key and the words, and every word of the
\* encrypted and of the decrypted buffer is a 32-bit value.
CipherInvolution ==
    /\ pc \in {"encrypted", "decrypted"} =>
          /\ Len(crypt.buf) = Len(crypt.plain)
          /\ \A k \in 1..Len(crypt.buf) : Is32(crypt.buf[k])
    /\ pc = "decrypted" => crypt.buf = crypt.plain

\* a buffer of several words went through both transforms under the hash-table
\* key, and its ciphertext was not the plaintext
CipherInvolutionWitness ==
    /\ pc = "decrypted"
    /\ Len(crypt.plain) >= 2
    /\ crypt.key = MPQ_KEY_HASH_TABLE
    /\ crypt.buf = crypt.plain
    /\ EncryptMpqBlock(crypt.plain, crypt.key) # crypt.plain

\* C5: decmpr_sector and cmpr_sector raise MethodUnsupportedError exactly when
\* the mask has a bit outside 0x02, and then apply no transform; with mask 0 the
\* payload comes back unchanged; with mask 0x02 the one registered transform is
\* applied once.
CodecDispatch ==
    pc = "returned" =>
        LET r == codec.result
            method == IF codec.op = "decmpr_sector" THEN "decompress_zlib" ELSE "compress_zlib"
            once == CallMethod(method, codec.buf)
        IN
        /\ (r.raised = "MethodUnsupportedError")
               <=> (BitAnd(codec.cmpr_byte, 255 - CMPR_METHOD_ZLIB, 8) # 0)
        /\ r.raised = "MethodUnsupportedError" => r.applied = <<>> /\ r.buf = <<>>
        /\ codec.cmpr_byte = 0 => r.raised = "" /\ r.applied = <<>> /\ r.buf = codec.buf
        /\ codec.cmpr_byte = CMPR_METHOD_ZLIB =>
              /\ r.applied = <<method>>
              /\ r.raised = once.raised
              /\ r.buf = once.buf

\* a mask with the registered bit and an unregistered one was refused, on a
\* payload that the registered transform alone would have inflated
CodecDispatchWitness ==
    /\ pc = "returned"
    /\ codec.op = "decmpr_sector"
    /\ codec.cmpr_byte = 10
    /\ codec.buf = compress_zlib(Text5)
    /\ codec.result.raised = "MethodUnsupportedError"
    /\ decompress_zlib(codec.buf) = Ok(Text5)

\* ------------------------------------------------------------------------
\* Properties of extract_mpq
\* ------------------------------------------------------------------------
\* the hash index a file name starts with
HashIndexOf(name) == ParseInt(SubSeq(name, 1, 6), 10)
\* the names of dest_dir/contents_anonymous written for hash-table entry k
ArtifactsOf(k) == {n \in DOMAIN dir : HashIndexOf(n) = k}
\* entry k of the table read: its block index is in range / is neither in
\* range nor the never-used value
InRange(k) ==
    /\ Hi(mpq.htable[k + 1].dwBlockIndex) = 0
    /\ Lo(mpq.htable[k + 1].dwBlockIndex) < Len(mpq.btable)
OutOfRange(k) ==
    /\ mpq.htable[k + 1].dwBlockIndex # NEVER_USED
    /\ ~InRange(k)
Entries == 0..(Len(mpq.htable) - 1)

\* C9: an entry whose block index is not 0xFFFFFFFF and is at or beyond the
\* block table's count ends the scan: neither it nor any later entry is ever
\* processed or gets an artifact, and when extract_mpq has returned it has
\* returned at the first such entry, without raising, with the artifacts of
\* the earlier entries in place.
OutOfRangeAborts ==
    \A b \in Entries :
        OutOfRange(b) =>
            /\ i <= b
            /\ \A k \in Entries : k >= b => k \notin visited /\ ArtifactsOf(k) = {}
            /\ (pc \in {"extracted", "groups", "assembled", "assemble_raised"}
                /\ \A e \in Entries : e < b => ~OutOfRange(e)) =>
                  /\ (pc = "extracted" => raised = "")
                  /\ \A k \in Entries :
                        k < b /\ InRange(k) =>
                            /\ k \in visited
                            /\ \A w \in 1..Len(ExtractFile(mpq, fin, k).writes) :
                                  LET wr == ExtractFile(mpq, fin, k).writes[w] IN
                                  wr[1] \in DOMAIN dir /\ dir[wr[1]] = wr[2]

\* extract_mpq has returned at an entry whose block index equals the block
\* table's count; the file of the entry after it was never written
OutOfRangeAbortsWitness ==
    /\ pc = "extracted" /\ raised = ""
    /\ i = 0 /\ OutOfRange(0)
    /\ mpq.htable[1].dwBlockIndex = FromNat(Len(mpq.btable))
    /\ InRange(1)
    /\ dir = <<>>

\* the sectors of the file in slot k as they lie in the archive, each a method
\* byte followed by its payload
SectorsOf(k) == Files[layout[k + 1]].sectors
\* a method mask with a bit that no transform is registered for
UnsupportedMask(cmpr_byte) == BitAnd(cmpr_byte, 255 - CMPR_METHOD_ZLIB, 8) # 0
UnsupportedSectors(k) == {s \in 1..Len(SectorsOf(k)) : UnsupportedMask(SectorsOf(k)[s][1])}
\* slot k holds a compressed file with a sector of an unsupported method
HasUnsupported(k) ==
    /\ layout[k + 1] \in FileKinds
    /\ IsCompressed(Files[layout[k + 1]].dwFlags)
    /\ UnsupportedSectors(k) # {}
\* every sector before the first unsupported one inflates without an error
DecodableBefore(k) ==
    \A s \in 1..Len(SectorsOf(k)) :
        (\A u \in UnsupportedSectors(k) : s < u) =>
            decmpr_sector(SectorsOf(k)[s][1], Tail(SectorsOf(k)[s])).raised = ""
\* the fallback for entry k: one raw artifact per sector, named by sector
\* index, method byte and declared size and holding the payload; nothing else
\* written for the entry; no exception; the scan is past the entry
FallbackDone(k) ==
    LET f == Files[layout[k + 1]]
        n_sectors == 1 + (f.dwFSize \div mpq.sector_size)
        raw == [s \in 1..n_sectors |->
                   RawName(FileId(k, mpq.htable[k + 1]), s - 1, f.sectors[s][1],
                           FromNat(f.dwFSize))]
    IN
    /\ n_sectors = Len(f.sectors)
    /\ \A s \in 1..n_sectors : raw[s] \in DOMAIN dir /\ dir[raw[s]] = Tail(f.sectors[s])
    /\ ArtifactsOf(k) = {raw[s] : s \in 1..n_sectors}
    /\ Cardinality(ArtifactsOf(k)) = n_sectors
    /\ ~(pc = "extract_raised" /\ i = k)
    /\ i > k

DeletedDoesNotTerminate ==
    pc = "extracted" =>
        \A d \in Entries, k \in Entries :
            (/\ mpq.htable[d + 1].dwBlockIndex = DELETED
             /\ d < k /\ InRange(k)
             /\ \A e \in Entries :
                   e < k /\ OutOfRange(e) => mpq.htable[e + 1].dwBlockIndex = DELETED)
            => k \in visited /\ ArtifactsOf(k) # {}

\* ------------------------------------------------------------------------
\* Properties of assemble_mpq
\* ------------------------------------------------------------------------
\* the header and the hash table as they are stored in the output
WrittenHeader == ParseHeader(ReadInto(asm.fout, 0, SIZEOF_HEADER))
WrittenHashTable ==
    read_table(asm.fout, ToNat(WrittenHeader.dwHashTablePos),
               ToNat(WrittenHeader.dwHashTableSize), "MpqHash", MPQ_KEY_HASH_TABLE)
\* the artifact groups, and the position of a group in the order of the loop
Groups == Roots(DOMAIN dir)
PositionOf(g) == CHOOSE p \in 1..Len(order) : order[p] = g

\* the hash table of the output records the groups: a slot that is the hash
\* index of no group holds block index 0xFFFFFFFF; a slot that is the hash index
\* of a group holds the digests, locale and platform of the group's name and the
\* position at which the group's block record was appended, which is below the
\* block table's count and differs from group to group
HashTableRecordsGroups ==
    LET ht == WrittenHashTable IN
    /\ Len(ht) = ToNat(asm.mpq.header.dwHashTableSize)
    /\ \A g \in Groups : g \in {order[p] : p \in 1..Len(order)}
    /\ \A k \in 0..(Len(ht) - 1) :
          IF \E g \in Groups : HashIndexOf(g) = k
          THEN \A g \in Groups :
                  HashIndexOf(g) = k =>
                      /\ FileId(k, ht[k + 1]) = g
                      /\ ht[k + 1].dwBlockIndex = FromNat(PositionOf(g) - 1)
                      /\ PositionOf(g) - 1 < ToNat(WrittenHeader.dwBlockTableSize)
          ELSE ht[k + 1].dwBlockIndex = NEVER_USED
    /\ \A g1, g2 \in Groups :
          g1 # g2 => ht[HashIndexOf(g1) + 1].dwBlockIndex
                        # ht[HashIndexOf(g2) + 1].dwBlockIndex
\* no two groups of the directory have the same hash index
OneGroupPerIndex == \A g1, g2 \in Groups : g1 # g2 => HashIndexOf(g1) # HashIndexOf(g2)

WrittenBlockTable ==
    read_table(asm.fout, ToNat(WrittenHeader.dwBlockTablePos),
               ToNat(WrittenHeader.dwBlockTableSize), "MpqBlock", MPQ_KEY_BLOCK_TABLE)
\* the sectors assemble_mpq allots to group g
SectorsAllotted(g) ==
    LET ext_list == ExtsOf(DOMAIN dir, g) IN
    IF Cardinality(ext_list) > 1 THEN Cardinality(ext_list)
    ELSE 1 + (Len(dir[g \o (CHOOSE e \in ext_list : TRUE)]) \div asm.mpq.sector_size)

\* the parts of C7 about the tables: the header of the output records where
\* each encrypted table begins and how many block records were written
TablesRecorded ==
    LET h == WrittenHeader
        count == Len(order)
        bpos == Len(asm.fout) - (SIZEOF_ENTRY * count)
        hpos == bpos - (SIZEOF_ENTRY * ToNat(h.dwHashTableSize))
    IN
    /\ h.dwBlockTableSize = FromNat(count)
    /\ Len(asm.block_data) = SIZEOF_ENTRY * count
    /\ h.dwHashTablePos = FromNat(hpos)
    /\ h.dwBlockTablePos = FromNat(bpos)
    /\ WrittenHashTable = asm.mpq.htable
    /\ WrittenBlockTable = asm.mpq.btable
    /\ WordsToBytes(BlockTableWords(WrittenBlockTable)) = asm.block_data
AssembledTablesRecorded == pc = "assembled" => TablesRecorded

\* C7: after assemble_mpq the header at offset 0 holds the length of the
\* output as its archive size, the positions of the two encrypted tables and
\* the number of block records written.
AssembledHeader ==
    pc = "assembled" =>
        /\ WrittenHeader.dwArchiveSize = FromNat(Len(asm.fout))
        /\ TablesRecorded

\* C1: extract_mpq and then assemble_mpq give back the archive byte for byte,
\* for an archive whose slots are never-used or hold files of method 0x02 only.
RoundTripKinds == {"E", "text", "two", "exact", "empty"}
RoundTrip ==
    (/\ pc = "assembled" /\ layout # <<>>
     /\ \A k \in 1..Len(layout) : layout[k] \in RoundTripKinds)
        => asm.fout = fin

\* C8: the sector offset table of every file of the output has one entry more
\* than the file has sectors, does not decrease, starts with its own size and
\* ends with the size of the file's data in the output; and the table that
\* extract_mpq reads for the block record gives no sector a negative length.
SectorOffsetTables ==
    pc = "assembled" =>
        \A b \in 1..Len(order) :
            LET blk == WrittenBlockTable[b]
                n == SectorsAllotted(order[b])
                tbl == ReadOffsetTable(asm.fout, blk, n)
                end == IF b < Len(order) THEN ToNat(WrittenBlockTable[b + 1].dwFilePos)
                       ELSE ToNat(WrittenHeader.dwHashTablePos)
                n_sectors == 1 + (ToNat(blk.dwFSize) \div asm.mpq.sector_size)
                sector_offset_table == ReadOffsetTable(asm.fout, blk, n_sectors)
            IN
            /\ \A j \in 0..(n - 1) : tbl[j] <= tbl[j + 1]
            /\ tbl[0] = 4 * (n + 1)
            /\ tbl[n] = end - ToNat(blk.dwFilePos)
            /\ \A j \in 0..(n_sectors - 1) :
                  sector_offset_table[j + 1] - sector_offset_table[j] >= 0

\* C6: for every artifact named <file id>.<4 digits>_<method>_<declared size>
\* the output holds, where the offset table of its file puts its sector, the
\* method byte of the name followed by the artifact's bytes, and the block
\* record of its file holds the declared size as the uncompressed size.
RawPassThrough ==
    pc = "assembled" =>
        \A name \in DOMAIN dir :
            LET g == SplitRoot(name)
                suffix == Tail(SplitExt(name))
            IN
            MatchPrecompressed(suffix) =>
                LET blk == WrittenBlockTable[PositionOf(g)]
                    exts == Sorted(ExtsOf(DOMAIN dir, g))
                    s == CHOOSE x \in 1..Len(exts) : exts[x] = SplitExt(name)
                    tbl == ReadOffsetTable(asm.fout, blk, SectorsAllotted(g))
                IN
                /\ ReadAt(asm.fout, ToNat(blk.dwFilePos) + tbl[s - 1], 1 + Len(dir[name]))
                      = <<ParseInt(SubSeq(suffix, 6, 7), 16)>> \o dir[name]
                /\ blk.dwFSize = ParseHex32(SubSeq(suffix, 9, 16))

\* the file in slot k is stored uncompressed, or every one of its sectors
\* decodes without an error
AllDecode(k) ==
    \A s \in 1..Len(SectorsOf(k)) :
        decmpr_sector(SectorsOf(k)[s][1], Tail(SectorsOf(k)[s])).raised = ""
FullyDecodable(k) ==
    /\ layout[k + 1] \in FileKinds
    /\ (~IsCompressed(Files[layout[k + 1]].dwFlags) \/ AllDecode(k))
\* the decoded content of the file in slot k has no byte
ContentEmpty(k) ==
    \A s \in 1..Len(SectorsOf(k)) :
        IF IsCompressed(Files[layout[k + 1]].dwFlags)
        THEN decmpr_sector(SectorsOf(k)[s][1], Tail(SectorsOf(k)[s])).buf = <<>>
        ELSE SectorsOf(k)[s] = <<>>
\* the name ends in .<4 digits>_<method>_<declared size>
IsRawName(n) == SplitExt(n) # <<>> /\ MatchPrecompressed(Tail(SplitExt(n)))
\* entry k has exactly one artifact, <file id of k>.<ext>, not a sector file
OneDecodedArtifact(k) ==
    /\ Cardinality(ArtifactsOf(k)) = 1
    /\ \A n \in ArtifactsOf(k) :
          /\ SplitRoot(n) = FileId(k, mpq.htable[k + 1])
          /\ ~IsRawName(n)

\* C11: extract_mpq writes no artifact for an entry with block index
\* 0xFFFFFFFF; for a processed in-range entry whose file is stored uncompressed
\* or whose sectors all decode, empty content included, it writes exactly one
\* artifact, named <file id>.<ext> with the entry's hash index; sector files
\* are written only for files with a sector of an unsupported method.
ArtifactCount ==
    \A k \in Entries :
        /\ mpq.htable[k + 1].dwBlockIndex = NEVER_USED => ArtifactsOf(k) = {}
        /\ (k \in visited /\ InRange(k) /\ FullyDecodable(k)) => OneDecodedArtifact(k)
        /\ \A n \in ArtifactsOf(k) : IsRawName(n) => HasUnsupported(k)

\* the same for the files whose decoded content is not empty, and with sector
\* files allowed for the files whose decoded content is empty
ArtifactCountNonEmpty ==
    \A k \in Entries :
        /\ mpq.htable[k + 1].dwBlockIndex = NEVER_USED => ArtifactsOf(k) = {}
        /\ (k \in visited /\ InRange(k) /\ FullyDecodable(k) /\ ~ContentEmpty(k))
               => OneDecodedArtifact(k)
        /\ \A n \in ArtifactsOf(k) :
              IsRawName(n) => HasUnsupported(k) \/ (FullyDecodable(k) /\ ContentEmpty(k))
====
